---- MODULE Spec2Model ----
(***************************************************************************)
(* A model of the 8D audio converter: the DSP stages (panning, reverb,     *)
(* stereo width, vinyl warmth, trim, normalisation), the pipeline          *)
(* convert_to_8d that chains them, and the callers of the pipeline (the    *)
(* command line and the web server's conversion jobs), with the server's   *)
(* job store, its share links and its batch worker.                        *)
(*                                                                         *)
(* Numbers.  Samples and the 0..1 parameters are fixed-point hundredths    *)
(* (100 is 1.0); gains, angles and the float64 intermediates of the vinyl  *)
(* filter are ten-thousandths (10000 is 1.0, angles in 1e-4 rad); times    *)
(* of the trimmer are milliseconds.  A buffer is a sequence of frames, a   *)
(* frame a pair <<left, right>>.                                           *)
(***************************************************************************)
EXTENDS Integers, Sequences, FiniteSets, TLC

\* ------------------------------------------------------------------ bounds

\* Longest buffer handed to a DSP stage.
MaxFrames == 3
\* Longest effects[] list of an upload form.
MaxChain == 2
\* Latest reading of the clock of the share links, in seconds.
MaxTime == 2
\* Number of share tokens that can be created.
MaxTokens == 2
\* Most files in one batch upload.
MaxBatch == 3

\* --------------------------------------------------------- small utilities

Min(a, b) == IF a <= b THEN a ELSE b
Max(a, b) == IF a >= b THEN a ELSE b
Abs(a) == IF a < 0 THEN -a ELSE a

\* Python's int(x) and C-style division: the quotient truncated toward zero.
TruncDiv(a, b) == IF a >= 0 THEN a \div b ELSE -((-a) \div b)

\* The quotient rounded to the nearest integer, as a cast to float32 rounds.
RoundDiv(a, b) ==
    IF a >= 0 THEN (2 * a + b) \div (2 * b) ELSE -((2 * (-a) + b) \div (2 * b))

\* dict.get(key, default) on a dict modelled as a function.
Get(d, k, default) == IF k \in DOMAIN d THEN d[k] ELSE default

\* Result of a stage: the buffer it returns, or the exception it raises.
Returned(buf) == [err |-> "none", samples |-> buf]
Raised(e) == [err |-> e, samples |-> <<>>]

Left(buf) == [i \in 1..Len(buf) |-> buf[i][1]]
Right(buf) == [i \in 1..Len(buf) |-> buf[i][2]]
ColumnStack(l, r) == [i \in 1..Len(l) |-> <<l[i], r[i]>>]

\* np.max(samples): the largest sample, its sign kept.
PeakOf_signed(buf) ==
    LET vals == { buf[i][c] : i \in 1..Len(buf), c \in 1..2 }
    IN CHOOSE m \in vals : \A v \in vals : v <= m

\* np.max(np.abs(samples)) of a non-empty buffer.
PeakOf(buf) ==
    LET vals == { Abs(buf[i][c]) : i \in 1..Len(buf), c \in 1..2 }
    IN CHOOSE m \in vals : \A v \in vals : v <= m

\* ----------------------------------------------------------- numpy slices

\* A slice bound as numpy normalises it: negative counts from the end, and
\* both ends are clamped into 0..n.
NormIdx(i, n) == IF i < 0 THEN Max(0, n + i) ELSE Min(i, n)

\* seq[start:stop] with 0-based Python bounds (already normalised).
PySlice(seq, start, stop) ==
    IF stop <= start THEN <<>> ELSE SubSeq(seq, start + 1, stop)

\* target[start:stop] = src; numpy raises when the lengths differ.
SliceAssignOk(target, start, stop, src) ==
    Len(src) = Max(0, stop - start)

SliceAssign(target, start, stop, src) ==
    [i \in 1..Len(target) |->
        IF i > start /\ i <= stop THEN src[i - start] ELSE target[i]]

\* ------------------------------------------------------------ fixed point

\* sin on [0, pi/2], argument and value in ten-thousandths (Horner form of
\* the Taylor series to x^9).
SinQuarter(x) ==
    LET u  == (x * x) \div 10000
        a4 == 10000 - (u \div 72)
        a3 == 10000 - (((u * a4) \div 10000) \div 42)
        a2 == 10000 - (((u * a3) \div 10000) \div 20)
        a1 == 10000 - (((u * a2) \div 10000) \div 6)
    IN Min(10000, (x * a1) \div 10000)

\* np.sin, argument in 1e-4 rad (any integer), value in ten-thousandths.
Sin(x) ==
    LET r == x % 62832
    IN IF r <= 15708 THEN SinQuarter(r)
       ELSE IF r <= 47124 THEN
            (IF r <= 31416 THEN SinQuarter(31416 - r) ELSE -SinQuarter(r - 31416))
       ELSE -SinQuarter(62832 - r)

\* np.cos.
Cos(x) == Sin(x + 15708)

\* np.tanh, argument in ten-thousandths, value in ten-thousandths (Lambert's
\* continued fraction, evaluated in thousandths; saturated above 5.0).
TanhPos(x) ==
    LET x3 == x \div 10
        u  == (x3 * x3) \div 1000
        d9 == 19000
        d8 == 17000 + ((u * 1000) \div d9)
        d7 == 15000 + ((u * 1000) \div d8)
        d6 == 13000 + ((u * 1000) \div d7)
        d5 == 11000 + ((u * 1000) \div d6)
        d4 == 9000 + ((u * 1000) \div d5)
        d3 == 7000 + ((u * 1000) \div d4)
        d2 == 5000 + ((u * 1000) \div d3)
        d1 == 3000 + ((u * 1000) \div d2)
        d0 == 1000 + ((u * 1000) \div d1)
    IN IF x >= 50000 THEN 10000
       ELSE Min(10000, ((x3 * 1000) \div d0) * 10)

Tanh(x) == IF x < 0 THEN -TanhPos(-x) ELSE TanhPos(x)

\* ------------------------------------------------------------ DSP stages

\* Time of frame i (0-based) as np.linspace(0, n / sample_rate, n) gives it,
\* multiplied by 2*pi*pan_speed: the oscillator phase in 1e-4 rad.
PanPhase(i, n, sample_rate, pan_speed) ==
    IF n <= 1 THEN 0
    ELSE ((((62832 * pan_speed) \div 100) * i) * n) \div ((n - 1) * sample_rate)

\* The pan position with the oscillator at full depth whatever pan_depth.
PanPosition_full_depth(i, n, sample_rate, pan_speed, pan_depth) ==
    TruncDiv(Sin(PanPhase(i, n, sample_rate, pan_speed)) + 10000, 2)

\* Pan position (raw_pan + 1) / 2 of frame i, in ten-thousandths.
PanPosition(i, n, sample_rate, pan_speed, pan_depth) ==
    LET raw_pan == TruncDiv(Sin(PanPhase(i, n, sample_rate, pan_speed)) * pan_depth, 100)
    IN TruncDiv(raw_pan + 10000, 2)

\* The linear panning law: left gain 1 - position.
LeftGain_linear(pos) == 10000 - pos

\* Constant-power gains of a pan position: angle = position * pi / 2.
LeftGain(pos) == Cos((pos * 15708) \div 10000)
RightGain(pos) == Sin((pos * 15708) \div 10000)

\* converter.effects.apply_panning: sinusoidal auto-pan on a copy.
apply_panning(samples, sample_rate, pan_speed, pan_depth) ==
    LET n == Len(samples)
        pos(i) == PanPosition(i - 1, n, sample_rate, pan_speed, pan_depth)
    IN Returned([i \in 1..n |->
            << TruncDiv(samples[i][1] * LeftGain(pos(i)), 10000),
               TruncDiv(samples[i][2] * RightGain(pos(i)), 10000) >>])

\* Rotate8DEffect.apply: the same algorithm, parameters read from the dict.
Rotate8DEffect_apply(samples, sample_rate, params) ==
    apply_panning(samples, sample_rate,
                  Get(params, "pan_speed", 15), Get(params, "pan_depth", 100))

\* One channel through the reverb engine.  The engine is pedalboard's Reverb,
\* a library outside the repository: it is stood in for by a single damped
\* feedback comb whose tail is mixed with the dry signal, which keeps the
\* contract the callers rely on (same length, wet_level 0 is the dry signal).
RECURSIVE ReverbTail(_, _, _, _)
ReverbTail(x, i, room_size, damping) ==
    IF i <= 1 THEN 0
    ELSE TruncDiv(room_size *
                  (x[i - 1] + TruncDiv(ReverbTail(x, i - 1, room_size, damping)
                                       * (100 - damping), 100)), 100)

ReverbChannel(x, room_size, wet_level, dry_level, damping) ==
    [i \in 1..Len(x) |->
        TruncDiv(dry_level * x[i] + wet_level * ReverbTail(x, i, room_size, damping), 100)]

\* converter.effects.apply_reverb: transpose, run the board, transpose back.
apply_reverb(samples, sample_rate, room_size, wet_level, damping) ==
    LET dry_level == 100 - wet_level
    IN Returned(ColumnStack(
            ReverbChannel(Left(samples), room_size, wet_level, dry_level, damping),
            ReverbChannel(Right(samples), room_size, wet_level, dry_level, damping)))

\* ReverbEffect.apply: the same board, parameters read from the dict.
ReverbEffect_apply(samples, sample_rate, params) ==
    apply_reverb(samples, sample_rate, Get(params, "room_size", 40),
                 Get(params, "wet_level", 30), Get(params, "damping", 50))

\* A limiter in the normaliser's place: the buffer is divided by its peak only
\* when the peak is above 1.0, then scaled by 0.99.
normalize_audio_limiter(samples) ==
    IF Len(samples) = 0 THEN Raised("ValueError: zero-size array")
    ELSE LET peak == PeakOf(samples)
         IN IF peak > 0
            THEN Returned([i \in 1..Len(samples) |->
                     << TruncDiv(samples[i][1] * 99, Max(peak, 100)),
                        TruncDiv(samples[i][2] * 99, Max(peak, 100)) >>])
            ELSE Returned(samples)

\* converter.effects.normalize_audio.  np.max of an empty array raises.
normalize_audio(samples) ==
    IF Len(samples) = 0 THEN Raised("ValueError: zero-size array")
    ELSE LET peak == PeakOf(samples)
         IN IF peak > 0
            THEN Returned([i \in 1..Len(samples) |->
                     << TruncDiv(samples[i][1] * 99, peak),
                        TruncDiv(samples[i][2] * 99, peak) >>])
            ELSE Returned(samples)

\* Delay of the Haas effect in samples: int(sample_rate * width * 20 / 1000).
DelaySamples(sample_rate, width) == TruncDiv(sample_rate * width * 20, 100 * 1000)

\* The right-hand side result[:n - delay_samples, 1]: counting the frames to
\* copy, which goes negative on a buffer shorter than the delay.
DelayedTailSource_counted(right, delay_samples) ==
    PySlice(right, 0, NormIdx(Len(right) - delay_samples, Len(right)))

\* The right-hand side result[delay_samples:, 1]: the frames the tail already
\* holds, which leaves the right channel where it was.
DelayedTailSource_unshifted(right, delay_samples) ==
    PySlice(right, NormIdx(delay_samples, Len(right)), Len(right))

\* The right-hand side result[:-delay_samples, 1] of the shift.
DelayedTailSource(right, delay_samples) ==
    PySlice(right, 0, NormIdx(-delay_samples, Len(right)))

\* A head left as np.zeros_like made it: silence before the delayed signal.
DelayedHeadSource_silence(right, delay_samples) ==
    [i \in 1..NormIdx(delay_samples, Len(right)) |-> 0]

\* The right-hand side result[:delay_samples, 1] of the padding.
DelayedHeadSource(right, delay_samples) ==
    PySlice(right, 0, NormIdx(delay_samples, Len(right)))

\* StereoWidthEffect.apply.
StereoWidthEffect_apply(samples, sample_rate, params) ==
    LET width == Get(params, "stereo_width", 50)
        delay_samples == DelaySamples(sample_rate, width)
        n == Len(samples)
        right == Right(samples)
        zeros == [i \in 1..n |-> 0]
        \* right_delayed[delay_samples:] = result[:-delay_samples, 1]
        tailSrc == DelayedTailSource(right, delay_samples)
        tailLo == NormIdx(delay_samples, n)
        \* right_delayed[:delay_samples] = result[:delay_samples, 1]
        headSrc == DelayedHeadSource(right, delay_samples)
        headHi == NormIdx(delay_samples, n)
    IN IF width <= 1 THEN Returned(samples)
       ELSE IF delay_samples <= 0 THEN Returned(samples)
       ELSE IF ~SliceAssignOk(zeros, tailLo, n, tailSrc)
            THEN Raised("ValueError: could not broadcast")
       ELSE IF ~SliceAssignOk(zeros, 0, headHi, headSrc)
            THEN Raised("ValueError: could not broadcast")
       ELSE LET right_delayed ==
                    SliceAssign(SliceAssign(zeros, tailLo, n, tailSrc), 0, headHi, headSrc)
            IN Returned(ColumnStack(Left(samples), right_delayed))

\* Low-pass cutoff in Hz: 16000 - warmth * 12000, then
\* max(2000, min(cutoff, sample_rate * 0.45)).
CutoffHz(sample_rate, warmth) ==
    Max(2000, Min(16000 - warmth * 120, (sample_rate * 45) \div 100))

\* alpha = dt / (rc + dt) = 2 pi fc / (sample_rate + 2 pi fc), ten-thousandths.
Alpha(sample_rate, warmth) ==
    LET twoPiFc == (6283 * CutoffHz(sample_rate, warmth)) \div 1000
    IN (10000 * twoPiFc) \div (sample_rate + twoPiFc)

\* The in-place recurrence channel[i] = channel[i-1] + alpha * (channel[i] - channel[i-1]),
\* on a channel in ten-thousandths.
RECURSIVE LowPass(_, _, _)
LowPass(x, i, alpha) ==
    IF i = 1 THEN x[1]
    ELSE LET prev == LowPass(x, i - 1, alpha)
         IN prev + TruncDiv(alpha * (x[i] - prev), 10000)

\* One sample after the filter: drive, then tanh soft clipping.
Saturate(y, warmth) == Tanh(TruncDiv(y * (100 + warmth * 3), 100))

\* The bypass test written as `warmth <= 0`.
WarmthBypassed_zero_only(warmth) == warmth <= 0

\* The bypass test of VinylWarmthEffect.apply: warmth <= 0.01.
WarmthBypassed(warmth) == warmth <= 1

\* VinylWarmthEffect.apply.  The float64 intermediate is in ten-thousandths;
\* astype(float32) brings the result back to hundredths.
VinylWarmthEffect_apply(samples, sample_rate, params) ==
    LET warmth == Get(params, "vinyl_warmth", 30)
        n == Len(samples)
        alpha == Alpha(sample_rate, warmth)
        l64 == [i \in 1..n |-> samples[i][1] * 100]
        r64 == [i \in 1..n |-> samples[i][2] * 100]
        sat == [i \in 1..n |-> << Saturate(LowPass(l64, i, alpha), warmth),
                                  Saturate(LowPass(r64, i, alpha), warmth) >>]
    IN IF WarmthBypassed(warmth) THEN Returned(samples)
       ELSE IF n = 0 THEN Raised("ValueError: zero-size array")
       ELSE LET peak == PeakOf(sat)
                scaled == IF peak > 9900
                          THEN [i \in 1..n |-> << TruncDiv(sat[i][1] * 9900, peak),
                                                  TruncDiv(sat[i][2] * 9900, peak) >>]
                          ELSE sat
            IN Returned([i \in 1..n |-> << RoundDiv(scaled[i][1], 100),
                                           RoundDiv(scaled[i][2], 100) >>])

\* A frame index rounded to the nearest frame instead of truncated.
FrameIndex_rounded(ms, sample_rate) == RoundDiv(ms * sample_rate, 1000)

\* int(sec * sample_rate): the frame a time falls in, the time in milliseconds.
FrameIndex(ms, sample_rate) == TruncDiv(ms * sample_rate, 1000)

\* The trimmer without its `start_frame >= end_frame` guard: the slice is
\* returned whatever its bounds.
NumpyAudioTrimmer_trim_unguarded(samples, sample_rate, start_ms, end_ms) ==
    LET n == Len(samples)
        toEnd == end_ms <= 0 \/ end_ms * sample_rate >= 1000 * n
        start_frame == Max(0, FrameIndex(start_ms, sample_rate))
        end_frame == IF toEnd THEN n
                     ELSE Min(n, FrameIndex(end_ms, sample_rate))
    IN IF start_ms <= 0 /\ toEnd THEN Returned(samples)
       ELSE Returned(PySlice(samples, NormIdx(start_frame, n), NormIdx(end_frame, n)))

\* NumpyAudioTrimmer.trim, times in milliseconds.
\* end_sec >= total_duration is end_ms / 1000 >= n / sample_rate.
NumpyAudioTrimmer_trim(samples, sample_rate, start_ms, end_ms) ==
    LET n == Len(samples)
        toEnd == end_ms <= 0 \/ end_ms * sample_rate >= 1000 * n
        start_frame == Max(0, FrameIndex(start_ms, sample_rate))
        end_frame == IF toEnd THEN n
                     ELSE Min(n, FrameIndex(end_ms, sample_rate))
    IN IF start_ms <= 0 /\ toEnd THEN Returned(samples)
       ELSE IF start_frame >= end_frame THEN Returned(samples)
       ELSE Returned(PySlice(samples, NormIdx(start_frame, n), NormIdx(end_frame, n)))

\* ------------------------------------------------- registry and defaults

\* server.EFFECT_REGISTRY: the identifiers a form may name.
EFFECT_REGISTRY == {"8d_rotate", "reverb", "stereo_width", "vinyl_warmth"}

\* server.DEFAULT_EFFECT_IDS.
DEFAULT_EFFECT_IDS == <<"8d_rotate", "reverb">>

\* utils.DEFAULT_PARAMS, in hundredths.
DEFAULT_PARAMS == [speed |-> 15, depth |-> 100, room |-> 40, wet |-> 30, damping |-> 50]

\* server.ALLOWED_OUTPUT_FORMATS.
ALLOWED_OUTPUT_FORMATS == {"mp3", "wav", "flac", "ogg", "m4a"}

\* utils.SUPPORTED_OUTPUT_FORMATS (extensions without the dot).
SUPPORTED_OUTPUT_FORMATS == {"mp3", "wav", "flac", "ogg", "m4a"}

\* utils.get_export_format: FORMAT_EXPORT_MAP.get(ext, "wav").
get_export_format(ext) ==
    IF ext = "m4a" THEN "mp4"
    ELSE IF ext \in {"mp3", "wav", "flac", "ogg"} THEN ext
    ELSE "wav"

\* The parameters of convert_to_8d, as its def line declares them.
Signature == {"input_path", "output_path", "pan_speed", "pan_depth", "room_size",
              "wet_level", "damping", "verbose", "printer"}

\* Those without a default.
Required == {"input_path", "output_path"}

\* Python's binding of a call by keywords: a keyword the function does not
\* declare, or a missing required parameter, raises TypeError before the body.
Binds(kw) == kw \subseteq Signature /\ Required \subseteq kw

\* Keywords of the call in server._run_conversion.
ServerKwargs == {"input_path", "output_path", "pan_speed", "pan_depth", "room_size",
                 "wet_level", "damping", "progress_callback", "effect_chain",
                 "trim_start", "trim_end"}

\* Keywords of the two calls in main.main: quiet mode, and verbose mode.
CliQuietKwargs == {"input_path", "output_path", "pan_speed", "pan_depth",
                   "room_size", "wet_level", "damping"}
CliVerboseKwargs == CliQuietKwargs \cup {"progress_callback"}

\* An exception: its type and what its message names.
Exc(type, about) == [type |-> type, about |-> about]
NoError == Exc("none", "none")

\* utils.validate_param_range: min_val <= value <= max_val.
InRange(value, min_val, max_val) == min_val <= value /\ value <= max_val

\* The validation block of convert_to_8d: the first check that fails raises.
ValidateInputs(input, out_ext, a) ==
    IF input = "missing" THEN Exc("FileNotFoundError", "input_path")
    ELSE IF input # "ok" THEN Exc("ValueError", "input_path")
    ELSE IF out_ext \notin SUPPORTED_OUTPUT_FORMATS THEN Exc("ValueError", "output_path")
    ELSE IF ~InRange(a.pan_speed, 1, 200) THEN Exc("ValueError", "pan_speed")
    ELSE IF ~InRange(a.pan_depth, 0, 100) THEN Exc("ValueError", "pan_depth")
    ELSE IF ~InRange(a.room_size, 0, 100) THEN Exc("ValueError", "room_size")
    ELSE IF ~InRange(a.wet_level, 0, 100) THEN Exc("ValueError", "wet_level")
    ELSE IF ~InRange(a.damping, 0, 100) THEN Exc("ValueError", "damping")
    ELSE NoError

\* server._safe_float: the default when the field is absent or no number
\* (<<>>), otherwise the value (<<v>>) clamped into [min_v, max_v].
_safe_float(value, default, min_v, max_v) ==
    IF Len(value) = 0 THEN default ELSE Max(min_v, Min(max_v, value[1]))

\* The chain block with `continue` where the code returns 400: an unknown
\* identifier is skipped and the request goes on.
BuildChain_skip(effect_ids) ==
    IF Len(effect_ids) = 0 THEN [ok |-> TRUE, chain |-> DEFAULT_EFFECT_IDS]
    ELSE [ok |-> TRUE, chain |-> SelectSeq(effect_ids, LAMBDA e : e \in EFFECT_REGISTRY)]

\* The effect-chain block of start_conversion and start_batch_conversion:
\* the registered identifiers in order, the default chain for no identifiers,
\* and a rejection as soon as one identifier is not registered.
BuildChain(effect_ids) ==
    IF Len(effect_ids) = 0 THEN [ok |-> TRUE, chain |-> DEFAULT_EFFECT_IDS]
    ELSE IF \E i \in 1..Len(effect_ids) : effect_ids[i] \notin EFFECT_REGISTRY
         THEN [ok |-> FALSE, chain |-> <<>>]
         ELSE [ok |-> TRUE, chain |-> effect_ids]

\* ------------------------------------------------------- pipeline: state

VARIABLES
    pc,          \* where the modelled run stands: idle, rejected, queued, the
                 \* stage of convert_to_8d about to run, returned, raised, done, failed
    form,        \* the upload form as the client sent it (server runs)
    req,         \* the arguments the caller passes to convert_to_8d
    samples,     \* the sample buffer inside convert_to_8d
    sample_rate, \* its sample rate
    trace,       \* the stages entered so far, each with the frames it was given
    observed,    \* the invocations of the caller's progress callback
    error,       \* the exception propagating out of convert_to_8d
    job,         \* the job-store entry of the upload
    response,    \* HTTP status of POST /convert, or the exit status of the CLI
    files,       \* the files of the run that exist
    decoded_ms, \* the duration the decoder reported, -1 before the decoding
    created,     \* the temporary WAV files convert_to_8d has created so far
    download     \* the last GET /download: the id asked for, the job's status
                 \* when it was answered, and the HTTP status of the answer

\* A direct call of one DSP stage (as the unit tests make them): the stage, its
\* input buffer, sample rate and parameters, and what it returned or raised.
VARIABLE call

\* Two threads inside StereoWidthEffect.apply of the one instance the registry
\* holds: the arguments they share, each thread's position, locals and return
\* value, and the arrays named right_delayed.
VARIABLE par

dspVars == <<call, par>>

\* The job store of infrastructure/web/job_store.py and the threads calling
\* it: the dict _jobs, the owner of _lock (0 when free), and each calling
\* thread's call, position and what it saw.
VARIABLES _jobs, _lock, client

\* The share links of MemoryLinkStore: the dict _store, the value of
\* time.time(), and the record of what was created, revoked, found expired
\* and last resolved.
VARIABLES _store, now, linkLog

\* A batch: the dict _batches, the position of its worker thread, the temp
\* files that exist, and the last answer of GET /batch-status.
VARIABLES _batches, worker, tmp, polled

svcVars == <<_jobs, _lock, client, _store, now, linkLog, _batches, worker, tmp, polled>>

pipeVars == <<pc, form, req, samples, sample_rate, trace, observed, error, job,
              response, files, decoded_ms, created, download>>

tempVars == <<decoded_ms, created>>

webVars == <<download>>

\* Inputs of the model.
SampleRates == {4, 100}
PipeFrames == {<<0, 0>>, <<50, -100>>}
RECURSIVE SeqsUpTo(_, _)
SeqsUpTo(S, n) ==
    IF n = 0 THEN {<<>>}
    ELSE LET shorter == SeqsUpTo(S, n - 1)
         IN shorter \cup { Append(q, x) : q \in {t \in shorter : Len(t) = n - 1}, x \in S }
PipeBuffers == SeqsUpTo(PipeFrames, MaxFrames)

FormIds == EFFECT_REGISTRY \cup {"bogus"}
FormEffects == SeqsUpTo(FormIds, MaxChain)
FormFiles == {"ok", "missing", "bad_magic", "empty", "too_large"}
FormFormats == {"wav", "mp3", "exe"}
\* A form field: <<>> when absent or not a number, <<v>> otherwise.
FormSpeed == {<<>>, <<0>>, <<300>>}
FormUnit == {<<>>, <<150>>}
FormTrimStart == {<<>>, <<-1000>>, <<10>>}
FormTrimEnd == {<<>>, <<20>>, <<4000000>>}

CliSpeed == {0, 1, 200, 201}
CliUnit == {-1, 0, 100, 101}
CliInputs == {"ok", "missing", "bad_ext"}
CliOutExts == {"wav", "mp3", "txt"}

NoForm == [effects |-> <<>>, speed |-> <<>>, depth |-> <<>>, room |-> <<>>,
           wet |-> <<>>, damping |-> <<>>, trim_start |-> <<>>, trim_end |-> <<>>]
NoReq == [caller |-> "none", kwargs |-> {}, pan_speed |-> 0, pan_depth |-> 0,
          room_size |-> 0, wet_level |-> 0, damping |-> 0, effect_chain |-> <<>>,
          trim_start |-> 0, trim_end |-> 0, input |-> "none", out_ext |-> "none"]
NoJob == [status |-> "none", progress |-> 0, step |-> "none", error |-> "none"]
NoDownload == [job_id |-> "none", job_status |-> "none", status |-> 0]

PipeInit ==
    /\ pc = "idle"
    /\ form = NoForm
    /\ req = NoReq
    /\ samples = <<>>
    /\ sample_rate = 0
    /\ trace = <<>>
    /\ observed = <<>>
    /\ error = NoError
    /\ job = NoJob
    /\ response = 0
    /\ files = {}
    /\ decoded_ms = -1
    /\ created = {}
    /\ download = NoDownload

\* job_store.update_job: merge into the entry when there is one.
update_job(j, updates) ==
    IF j.status = "none" THEN j
    ELSE [k \in DOMAIN j |-> IF k \in DOMAIN updates THEN updates[k] ELSE j[k]]

\* The stage entered, with the number of frames it is given.
Enter(stage) == Append(trace, [stage |-> stage, frames |-> Len(samples)])

\* ----------------------------------------------------- pipeline: callers

\* The keywords in the order the callers write them.
CallOrder == <<"input_path", "output_path", "pan_speed", "pan_depth", "room_size",
               "wet_level", "damping", "progress_callback", "effect_chain",
               "trim_start", "trim_end">>

\* The keyword Python's TypeError names: the first one passed that the
\* function does not declare.
UnexpectedKeyword(kw) ==
    LET bad == {i \in 1..Len(CallOrder) : CallOrder[i] \in kw \ Signature}
    IN IF bad = {} THEN "missing required argument"
       ELSE CallOrder[CHOOSE i \in bad : \A j \in bad : i <= j]

\* The call convert_to_8d(**kw): bind the keywords, then enter the body.
CallConvert(kw) ==
    IF Binds(kw)
    THEN pc' = "validate" /\ error' = NoError
    ELSE pc' = "raised" /\ error' = Exc("TypeError", UnexpectedKeyword(kw))

\* POST /convert.
start_conversion ==
    /\ pc = "idle"
    /\ \E file \in FormFiles, format \in FormFormats, effects \in FormEffects :
        LET built == BuildChain(effects)
            status == IF file = "missing" THEN 400
                      ELSE IF file = "bad_magic" THEN 415
                      ELSE IF format \notin ALLOWED_OUTPUT_FORMATS THEN 400
                      ELSE IF ~built.ok THEN 400
                      ELSE IF file = "too_large" THEN 413
                      ELSE IF file = "empty" THEN 400
                      ELSE 202
        IN IF status # 202
           THEN /\ pc' = "rejected"
                /\ response' = status
                /\ form' = [NoForm EXCEPT !.effects = effects]
                /\ UNCHANGED <<req, job, files>>
           ELSE \E speed \in FormSpeed, depth \in FormUnit, room \in FormUnit,
                   wet \in FormUnit, damping \in FormUnit,
                   trim_start \in FormTrimStart, trim_end \in FormTrimEnd :
                /\ form' = [effects |-> effects, speed |-> speed, depth |-> depth,
                            room |-> room, wet |-> wet, damping |-> damping,
                            trim_start |-> trim_start, trim_end |-> trim_end]
                /\ req' = [caller |-> "server",
                           kwargs |-> ServerKwargs,
                           pan_speed |-> _safe_float(speed, DEFAULT_PARAMS.speed, 1, 200),
                           pan_depth |-> _safe_float(depth, DEFAULT_PARAMS.depth, 0, 100),
                           room_size |-> _safe_float(room, DEFAULT_PARAMS.room, 0, 100),
                           wet_level |-> _safe_float(wet, DEFAULT_PARAMS.wet, 0, 100),
                           damping |-> _safe_float(damping, DEFAULT_PARAMS.damping, 0, 100),
                           effect_chain |-> built.chain,
                           trim_start |-> _safe_float(trim_start, 0, 0, 3600 * 1000),
                           trim_end |-> _safe_float(trim_end, 0, 0, 3600 * 1000),
                           input |-> "ok",
                           out_ext |-> format]
                /\ job' = [status |-> "queued", progress |-> 0,
                           step |-> "Waiting to start", error |-> "none"]
                /\ files' = {"tmp_in", "tmp_out"}
                /\ response' = 202
                /\ pc' = "queued"
    /\ UNCHANGED <<samples, sample_rate, trace, observed, error>>
    /\ UNCHANGED tempVars
    /\ UNCHANGED webVars
    /\ UNCHANGED dspVars
    /\ UNCHANGED svcVars

\* server._run_conversion, up to and including its call of convert_to_8d.
run_conversion_call ==
    /\ pc = "queued"
    /\ req.caller = "server"
    /\ job' = update_job(job, [status |-> "processing"])
    /\ CallConvert(req.kwargs)
    /\ UNCHANGED <<form, req, samples, sample_rate, trace, observed, response, files>>
    /\ UNCHANGED tempVars
    /\ UNCHANGED webVars
    /\ UNCHANGED dspVars
    /\ UNCHANGED svcVars

\* A failure recorded as a completion.
FailedUpdates_done(e) == [status |-> "done", error |-> e.type]

\* The update of the except clause: {"status": "error", "error": str(e)}.
FailedUpdates(e) == [status |-> "error", error |-> e.type]

\* server._run_conversion after the call: the job's final state and the cleanup.
run_conversion_finish ==
    /\ req.caller = "server"
    /\ \/ /\ pc = "returned"
          /\ job' = update_job(job, [status |-> "done", progress |-> 100])
          /\ files' = files \ {"tmp_in"}
          /\ pc' = "done"
       \/ /\ pc = "raised"
          /\ job' = update_job(job, FailedUpdates(error))
          /\ files' = files \ {"tmp_in", "tmp_out", "output"}
          /\ pc' = "failed"
    /\ UNCHANGED <<form, req, samples, sample_rate, trace, observed, error, response>>
    /\ UNCHANGED tempVars
    /\ UNCHANGED webVars
    /\ UNCHANGED dspVars
    /\ UNCHANGED svcVars

\* The job ids a client may ask for: no UUID4, a UUID4 the store does not
\* hold, and the id POST /convert answered with.
DownloadIds == {"malformed", "unknown", "job"}

\* GET /download/<job_id>.  The job's output_path is the realpath of a file
\* mkstemp made in the temp dir, so the path test of the handler passes; the
\* output is gone once the cleanup timer has fired.
download_file ==
    /\ req.caller # "cli"
    /\ download = NoDownload
    /\ \E job_id \in DownloadIds, expired \in BOOLEAN :
        LET found == job_id = "job" /\ job.status # "none"
            status == IF job_id = "malformed" THEN 400
                      ELSE IF ~found \/ job.status # "done" THEN 404
                      ELSE IF expired \/ "output" \notin files THEN 410
                      ELSE 200
        IN download' = [job_id |-> job_id,
                        job_status |-> IF found THEN job.status ELSE "none",
                        status |-> status]
    /\ UNCHANGED <<pc, form, req, samples, sample_rate, trace, observed, error, job,
                   response, files>>
    /\ UNCHANGED tempVars
    /\ UNCHANGED dspVars
    /\ UNCHANGED svcVars

\* main.main: parse the arguments and call convert_to_8d, with the progress
\* callback unless --quiet.
main_call ==
    /\ pc = "idle"
    /\ \E quiet \in BOOLEAN, input \in CliInputs, out_ext \in CliOutExts,
          speed \in CliSpeed, depth \in CliUnit, room \in CliUnit,
          wet \in CliUnit, damping \in CliUnit :
        /\ req' = [caller |-> "cli",
                   kwargs |-> IF quiet THEN CliQuietKwargs ELSE CliVerboseKwargs,
                   pan_speed |-> speed, pan_depth |-> depth, room_size |-> room,
                   wet_level |-> wet, damping |-> damping,
                   effect_chain |-> <<>>, trim_start |-> 0, trim_end |-> 0,
                   input |-> input, out_ext |-> out_ext]
        /\ CallConvert(req'.kwargs)
    /\ UNCHANGED <<form, samples, sample_rate, trace, observed, job, response, files>>
    /\ UNCHANGED tempVars
    /\ UNCHANGED webVars
    /\ UNCHANGED dspVars
    /\ UNCHANGED svcVars

\* main.main after the call: the result printed, or the error and exit status 1.
main_finish ==
    /\ req.caller = "cli"
    /\ \/ /\ pc = "returned"
          /\ response' = 0
          /\ pc' = "done"
       \/ /\ pc = "raised"
          /\ response' = 1
          /\ pc' = "failed"
    /\ UNCHANGED <<form, req, samples, sample_rate, trace, observed, error, job, files>>
    /\ UNCHANGED tempVars
    /\ UNCHANGED webVars
    /\ UNCHANGED dspVars
    /\ UNCHANGED svcVars

\* ------------------------------------------------ pipeline: convert_to_8d

\* The body with the normalisation moved in front of the effects.
NextStage_normalize_first(stage) ==
    CASE stage = "validate" -> "load"
      [] stage = "load" -> "normalize"
      [] stage = "normalize" -> "8d_rotate"
      [] stage = "8d_rotate" -> "reverb"
      [] stage = "reverb" -> "export"
      [] stage = "export" -> "returned"

\* The order of the steps in the body of convert_to_8d.
NextStage(stage) ==
    CASE stage = "validate" -> "load"
      [] stage = "load" -> "8d_rotate"
      [] stage = "8d_rotate" -> "reverb"
      [] stage = "reverb" -> "normalize"
      [] stage = "normalize" -> "export"
      [] stage = "export" -> "returned"

\* A stage wrapped in try/except: the exception is noted and the run goes on
\* with the buffer it had.
StageResult_swallow(r, stage) ==
    /\ samples' = (IF r.err = "none" THEN r.samples ELSE samples)
    /\ pc' = NextStage(stage)
    /\ error' = (IF r.err = "none" THEN error ELSE Exc("ValueError", stage))

\* What a stage leaves behind: its buffer and the next stage, or its
\* exception, which nothing in convert_to_8d catches.
StageResult(r, stage) ==
    IF r.err = "none"
    THEN /\ samples' = r.samples
         /\ pc' = NextStage(stage)
         /\ error' = error
    ELSE /\ samples' = samples
         /\ pc' = "raised"
         /\ error' = Exc("ValueError", stage)

\* The validation block: paths, then the five ranges.
convert_validate ==
    /\ pc = "validate"
    /\ LET e == ValidateInputs(req.input, req.out_ext, req)
       IN IF e = NoError
          THEN pc' = NextStage("validate") /\ error' = error
          ELSE pc' = "raised" /\ error' = e
    /\ UNCHANGED <<form, req, samples, sample_rate, trace, observed, job, response, files>>
    /\ UNCHANGED tempVars
    /\ UNCHANGED webVars
    /\ UNCHANGED dspVars
    /\ UNCHANGED svcVars

\* What the decoder makes of the input file: nothing, or audio of some
\* duration (pydub's len, milliseconds).
Decodes ==
    {[decodable |-> FALSE, duration_ms |-> 0, samples |-> <<>>, sample_rate |-> 4]}
    \cup {[decodable |-> TRUE, duration_ms |-> 600 * 1000 + 1, samples |-> <<>>,
           sample_rate |-> 4]}
    \cup {[decodable |-> TRUE, duration_ms |-> 600 * 1000, samples |-> <<<<50, -100>>>>,
           sample_rate |-> 4]}
    \cup {[decodable |-> TRUE, duration_ms |-> (Len(b) * 1000) \div sr, samples |-> b,
           sample_rate |-> sr] : b \in PipeBuffers, sr \in SampleRates}

\* The duration cap: duration_sec > 600.
TooLong(duration_ms) == duration_ms > 600 * 1000

\* [1/5] with the duration test moved below the creation of the temporary
\* WAV, inside the try block.
LoadOutcome_guard_after_temp(d, read_ok) ==
    IF ~d.decodable
    THEN [err |-> Exc("CouldntDecodeError", "load"), created |-> {}, left |-> {}]
    ELSE IF TooLong(d.duration_ms)
    THEN [err |-> Exc("ValueError", "load"), created |-> {"decode_tmp"}, left |-> {}]
    ELSE IF ~read_ok
    THEN [err |-> Exc("LibsndfileError", "load"), created |-> {"decode_tmp"}, left |-> {}]
    ELSE [err |-> NoError, created |-> {"decode_tmp"}, left |-> {}]

\* [1/5] with os.unlink after the read instead of in a finally clause.
LoadOutcome_unlink_after_read(d, read_ok) ==
    IF ~d.decodable
    THEN [err |-> Exc("CouldntDecodeError", "load"), created |-> {}, left |-> {}]
    ELSE IF TooLong(d.duration_ms)
    THEN [err |-> Exc("ValueError", "load"), created |-> {}, left |-> {}]
    ELSE IF ~read_ok
    THEN [err |-> Exc("LibsndfileError", "load"), created |-> {"decode_tmp"},
          left |-> {"decode_tmp"}]
    ELSE [err |-> NoError, created |-> {"decode_tmp"}, left |-> {}]

\* [1/5] Load, in the order of the code: decode (which may raise), the
\* duration cap, mkstemp, then export and read back inside try/finally with
\* os.unlink in the finally clause.  `created` are the temporary files the
\* step created, `left` those of them that exist when it is over.
LoadOutcome(d, read_ok) ==
    IF ~d.decodable
    THEN [err |-> Exc("CouldntDecodeError", "load"), created |-> {}, left |-> {}]
    ELSE IF TooLong(d.duration_ms)
    THEN [err |-> Exc("ValueError", "load"), created |-> {}, left |-> {}]
    ELSE IF ~read_ok
    THEN [err |-> Exc("LibsndfileError", "load"), created |-> {"decode_tmp"}, left |-> {}]
    ELSE [err |-> NoError, created |-> {"decode_tmp"}, left |-> {}]

\* [1/5] Load audio.
convert_load ==
    /\ pc = "load"
    /\ trace' = Enter("load")
    /\ \E d \in Decodes, read_ok \in BOOLEAN :
        LET o == LoadOutcome(d, read_ok)
        IN /\ decoded_ms' = (IF d.decodable THEN d.duration_ms ELSE decoded_ms)
           /\ created' = created \cup o.created
           /\ files' = files \cup o.left
           /\ IF o.err # NoError
              THEN /\ pc' = "raised"
                   /\ error' = o.err
                   /\ UNCHANGED <<samples, sample_rate>>
              ELSE /\ samples' = d.samples
                   /\ sample_rate' = d.sample_rate
                   /\ pc' = NextStage("load")
                   /\ error' = error
    /\ UNCHANGED <<form, req, observed, job, response>>
    /\ UNCHANGED webVars
    /\ UNCHANGED dspVars
    /\ UNCHANGED svcVars

\* [2/5] Auto-panning.
convert_pan ==
    /\ pc = "8d_rotate"
    /\ trace' = Enter("8d_rotate")
    /\ StageResult(apply_panning(samples, sample_rate, req.pan_speed, req.pan_depth),
                   "8d_rotate")
    /\ UNCHANGED <<form, req, sample_rate, observed, job, response, files>>
    /\ UNCHANGED tempVars
    /\ UNCHANGED webVars
    /\ UNCHANGED dspVars
    /\ UNCHANGED svcVars

\* [3/5] Reverb.  The engine is a library: it may also raise.
convert_reverb ==
    /\ pc = "reverb"
    /\ trace' = Enter("reverb")
    /\ \E engine_ok \in BOOLEAN :
        StageResult(IF engine_ok
                    THEN apply_reverb(samples, sample_rate, req.room_size,
                                      req.wet_level, req.damping)
                    ELSE Raised("engine"),
                    "reverb")
    /\ UNCHANGED <<form, req, sample_rate, observed, job, response, files>>
    /\ UNCHANGED tempVars
    /\ UNCHANGED webVars
    /\ UNCHANGED dspVars
    /\ UNCHANGED svcVars

\* [4/5] Normalize.
convert_normalize ==
    /\ pc = "normalize"
    /\ trace' = Enter("normalize")
    /\ StageResult(normalize_audio(samples), "normalize")
    /\ UNCHANGED <<form, req, sample_rate, observed, job, response, files>>
    /\ UNCHANGED tempVars
    /\ UNCHANGED webVars
    /\ UNCHANGED dspVars
    /\ UNCHANGED svcVars

\* The temporary WAV of the export: none for a WAV target.
ExportTemps(export_fmt) == IF export_fmt = "wav" THEN {} ELSE {"export_tmp"}

\* [5/5] Export: straight to the output for WAV; otherwise a temporary WAV is
\* written and handed to the encoder inside try/finally, and the finally clause
\* removes it when it exists.
convert_export ==
    /\ pc = "export"
    /\ trace' = Enter("export")
    /\ created' = created \cup ExportTemps(get_export_format(req.out_ext))
    /\ \E encoder_ok \in BOOLEAN :
        IF encoder_ok \/ get_export_format(req.out_ext) = "wav"
        THEN /\ files' = files \cup {"output"}
             /\ pc' = NextStage("export")
             /\ error' = error
        ELSE /\ files' = files
             /\ pc' = "raised"
             /\ error' = Exc("CouldntEncodeError", "export")
    /\ UNCHANGED <<form, req, samples, sample_rate, observed, job, response, decoded_ms>>
    /\ UNCHANGED webVars
    /\ UNCHANGED dspVars
    /\ UNCHANGED svcVars

PipeNext ==
    \/ start_conversion
    \/ run_conversion_call
    \/ run_conversion_finish
    \/ download_file
    \/ main_call
    \/ main_finish
    \/ convert_validate
    \/ convert_load
    \/ convert_pan
    \/ convert_reverb
    \/ convert_normalize
    \/ convert_export

\* `after` is the caller's array once the call is over, `first` the outcome of
\* the call before when the stage is called again on what it returned.
\* The services at rest: an empty store with its lock free and no caller, no
\* share link, no batch.
NoEntries == [k \in {} |-> 0]
NoClient == [pc |-> "idle", op |-> "none", job_id |-> "none", data |-> NoEntries,
             before |-> NoEntries, after |-> NoEntries, result |-> <<>>,
             err |-> "none"]
StoreIdle ==
    /\ _jobs = NoEntries
    /\ _lock = 0
    /\ client = [t \in {1, 2} |-> NoClient]

NoResolve == [token |-> 0, result |-> <<>>, at |-> 0, issued |-> <<>>,
              dead |-> FALSE, revoked |-> FALSE]
NoLinkLog == [issued |-> NoEntries, revoked |-> {}, dead |-> {}, last |-> NoResolve]
LinksIdle ==
    /\ _store = NoEntries
    /\ now = 0
    /\ linkLog = NoLinkLog

NoWorker == [pc |-> "idle", batch_id |-> "none", k |-> 0, raised |-> FALSE,
             error |-> "none", response |-> 0]
NoPoll == [status |-> 0, batch |-> "none", jobs |-> <<>>, done |-> 0, failed |-> 0]
BatchIdle ==
    /\ _batches = NoEntries
    /\ worker = NoWorker
    /\ tmp = {}
    /\ polled = NoPoll

NoCall == [op |-> "none", input |-> <<>>, sample_rate |-> 0,
           params |-> [k \in {} |-> 0], result |-> Returned(<<>>),
           after |-> <<>>, first |-> Returned(<<>>)]

Threads == {1, 2}

NoThread == [pc |-> "start", result |-> <<>>, out |-> Returned(<<>>)]

NoPar == [input |-> <<>>, sample_rate |-> 0, params |-> [k \in {} |-> 0],
          thr |-> [t \in Threads |-> NoThread],
          scratch |-> [k \in {0} \cup Threads |-> <<>>],
          overlap |-> FALSE]

vars == <<pc, form, req, samples, sample_rate, trace, observed, error, job,
          response, files, decoded_ms, created, download, call, par,
          _jobs, _lock, client, _store, now, linkLog, _batches, worker, tmp, polled>>

Init == PipeInit /\ call = NoCall /\ par = NoPar /\ StoreIdle /\ LinksIdle /\ BatchIdle

Next == PipeNext

Spec == Init /\ [][Next]_vars

\* ------------------------------------------------ direct calls of a stage

\* Inputs of a direct call.
DspSampleRates == {4, 100, 200}
DspFrames == {<<0, 0>>, <<50, -100>>, <<-40, -20>>, <<150, 150>>}
DspBuffers == SeqsUpTo(DspFrames, MaxFrames)

\* The dicts with some of the keys, each key with a value of V.
DictsOver(keys, V) == UNION {[ks -> V] : ks \in SUBSET keys}

RotateParams ==
    {p \in DictsOver({"pan_speed", "pan_depth"}, {0, 1, 50, 100, 200}) :
        /\ "pan_speed" \in DOMAIN p => p.pan_speed # 0
        /\ "pan_depth" \in DOMAIN p => p.pan_depth # 200}
ReverbParams == DictsOver({"room_size", "wet_level", "damping"}, {0, 50})
WidthParams == DictsOver({"stereo_width"}, {0, 1, 2, 50, 100})
WarmthParams == DictsOver({"vinyl_warmth"}, {0, 1, 2, 30, 100})
TrimStarts == {-500, 0, 5, 15, 250, 1000}
TrimEnds == {-5, 0, 5, 25, 500, 100000}

InitDsp ==
    /\ PipeInit
    /\ par = NoPar
    /\ StoreIdle /\ LinksIdle /\ BatchIdle
    /\ call \in {[NoCall EXCEPT !.input = b, !.after = b, !.sample_rate = sr] :
                    b \in DspBuffers, sr \in DspSampleRates}

\* The stage writes into an array of its own and not into the caller's.
CopiesInput_in_place(op) == op # "8d_rotate"

\* Every stage works on a copy: samples.copy() in Rotation, Stereo Width and
\* Vinyl Warmth, samples.T.astype(np.float32) in Reverb, a new array from the
\* arithmetic of the normaliser; the trimmer writes nothing.
CopiesInput(op) == TRUE

\* The call made on the buffer at hand, and its outcome.  Writes of a stage
\* that does not copy land in the caller's array.
Called(op, params, result) ==
    /\ call.op = "none"
    /\ call' = [call EXCEPT !.op = op, !.params = params, !.result = result,
                            !.after = IF CopiesInput(op) \/ result.err # "none"
                                      THEN call.input ELSE result.samples]
    /\ UNCHANGED <<pipeVars, par, svcVars>>

call_rotate ==
    \E params \in RotateParams :
        Called("8d_rotate", params,
               Rotate8DEffect_apply(call.input, call.sample_rate, params))

call_reverb ==
    \E params \in ReverbParams :
        Called("reverb", params,
               ReverbEffect_apply(call.input, call.sample_rate, params))

call_stereo_width ==
    \E params \in WidthParams :
        Called("stereo_width", params,
               StereoWidthEffect_apply(call.input, call.sample_rate, params))

call_vinyl_warmth ==
    \E params \in WarmthParams :
        Called("vinyl_warmth", params,
               VinylWarmthEffect_apply(call.input, call.sample_rate, params))

call_normalize ==
    Called("normalize", NoCall.params, normalize_audio(call.input))

\* The normaliser called again on the buffer it returned.
call_normalize_again ==
    /\ call.op = "normalize"
    /\ call.result.err = "none"
    /\ call' = [call EXCEPT !.op = "normalize_again", !.first = call.result,
                            !.result = normalize_audio(call.result.samples)]
    /\ UNCHANGED <<pipeVars, par, svcVars>>

\* The trimmer's two times are kept in the call's params.
call_trim ==
    \E start_ms \in TrimStarts, end_ms \in TrimEnds :
        Called("trim", [k \in {"start_ms", "end_ms"} |->
                            IF k = "start_ms" THEN start_ms ELSE end_ms],
               NumpyAudioTrimmer_trim(call.input, call.sample_rate, start_ms, end_ms))

NextDsp ==
    \/ call_rotate
    \/ call_reverb
    \/ call_stereo_width
    \/ call_vinyl_warmth
    \/ call_normalize
    \/ call_normalize_again
    \/ call_trim

SpecDsp == InitDsp /\ [][NextDsp]_vars

\* ------------------------------------- two threads in one effect instance

\* right_delayed as an attribute of the instance, which the threads share.
Owner_instance(t) == 0

\* Where right_delayed of thread t's call lives: a local of that call.
Owner(t) == t

ParWidths == DictsOver({"stereo_width"}, {1, 50, 100})

InitPar ==
    /\ PipeInit
    /\ call = NoCall
    /\ StoreIdle /\ LinksIdle /\ BatchIdle
    /\ par \in {[NoPar EXCEPT !.input = b, !.sample_rate = sr, !.params = p] :
                   b \in DspBuffers, sr \in DspSampleRates, p \in ParWidths}

ParDelay == DelaySamples(par.sample_rate, Get(par.params, "stereo_width", 50))

\* One statement of thread t: its new position and locals, and the arrays
\* named right_delayed after it.  The statement overlaps the other call when
\* that call has started and not returned.
Statement(t, thread, scratch) ==
    /\ par' = [par EXCEPT !.thr[t] = thread, !.scratch = scratch,
                          !.overlap = @ \/ \E u \in Threads \ {t} :
                                               par.thr[u].pc \notin {"start", "done"}]
    /\ UNCHANGED <<pipeVars, call, svcVars>>

\* Lines 31-43: the two bypass tests, then result = samples.copy().
sw_copy(t) ==
    /\ par.thr[t].pc = "start"
    /\ IF Get(par.params, "stereo_width", 50) <= 1 \/ ParDelay <= 0
       THEN Statement(t, [par.thr[t] EXCEPT !.pc = "done", !.out = Returned(par.input)],
                      par.scratch)
       ELSE Statement(t, [par.thr[t] EXCEPT !.pc = "zeros", !.result = par.input],
                      par.scratch)

\* Line 47: right_delayed = np.zeros_like(result[:, 1]).
sw_zeros(t) ==
    /\ par.thr[t].pc = "zeros"
    /\ Statement(t, [par.thr[t] EXCEPT !.pc = "tail"],
                 [par.scratch EXCEPT ![Owner(t)] =
                      [i \in 1..Len(par.thr[t].result) |-> 0]])

\* A slice assignment into right_delayed, which raises on unequal lengths.
AssignSlice(t, start, stop, src, next) ==
    IF SliceAssignOk(par.scratch[Owner(t)], start, stop, src)
    THEN Statement(t, [par.thr[t] EXCEPT !.pc = next],
                   [par.scratch EXCEPT ![Owner(t)] =
                        SliceAssign(par.scratch[Owner(t)], start, stop, src)])
    ELSE Statement(t, [par.thr[t] EXCEPT !.pc = "done",
                                          !.out = Raised("ValueError: could not broadcast")],
                   par.scratch)

\* Line 48: right_delayed[delay_samples:] = result[:-delay_samples, 1].
sw_tail(t) ==
    /\ par.thr[t].pc = "tail"
    /\ LET n == Len(par.thr[t].result)
       IN AssignSlice(t, NormIdx(ParDelay, n), n,
                      DelayedTailSource(Right(par.thr[t].result), ParDelay), "head")

\* Line 49: right_delayed[:delay_samples] = result[:delay_samples, 1].
sw_head(t) ==
    /\ par.thr[t].pc = "head"
    /\ LET n == Len(par.thr[t].result)
           hi == NormIdx(ParDelay, n)
       IN AssignSlice(t, 0, hi, DelayedHeadSource(Right(par.thr[t].result), ParDelay), "store")

\* Lines 50-52: result[:, 1] = right_delayed; return result.
sw_store(t) ==
    /\ par.thr[t].pc = "store"
    /\ LET result == ColumnStack(Left(par.thr[t].result), par.scratch[Owner(t)])
       IN Statement(t, [par.thr[t] EXCEPT !.pc = "done", !.result = result,
                                         !.out = Returned(result)],
                    par.scratch)

NextPar ==
    \E t \in Threads :
        \/ sw_copy(t)
        \/ sw_zeros(t)
        \/ sw_tail(t)
        \/ sw_head(t)
        \/ sw_store(t)

SpecPar == InitPar /\ [][NextPar]_vars

\* ------------------------------------------------------------ the job store

storeVars == <<_lock, client>>
linkVars == <<_store, now, linkLog>>
batchVars == <<_batches, worker, tmp, polled>>

\* The job ids of the calls, the entries set_job is given and the updates
\* update_job is given (those of server._run_conversion).
JobIds == {"a", "b"}
StoreEntries == {[status |-> "queued", progress |-> 0, step |-> "Waiting to start"]}
StoreUpdates == {[status |-> "processing"],
                 [progress |-> 50, step |-> "Reverb"],
                 [status |-> "error", error |-> "failed"]}
StoreOps == {"get_job", "set_job", "update_job", "delete_job"}

\* The stores the calls start on: empty, or holding job "a", or both jobs.
StoreStarts ==
    {[k \in ids |-> [status |-> "queued", progress |-> 0, step |-> "Waiting to start"]] :
        ids \in {{}, {"a"}, {"a", "b"}}}

\* dict.update, d[key] = value and d.pop(key, None).
dict_update(d, updates) ==
    [k \in DOMAIN d \cup DOMAIN updates |-> IF k \in DOMAIN updates THEN updates[k] ELSE d[k]]
dict_set(d, key, value) ==
    [k \in DOMAIN d \cup {key} |-> IF k = key THEN value ELSE d[k]]
dict_pop(d, key) == [k \in DOMAIN d \ {key} |-> d[k]]

InitStore ==
    /\ PipeInit
    /\ call = NoCall
    /\ par = NoPar
    /\ LinksIdle
    /\ BatchIdle
    /\ _jobs \in StoreStarts
    /\ _lock = 0
    /\ client = [t \in Threads |-> NoClient]

\* A store without its lock: every thread enters at once.
LockFree_unlocked(lock) == TRUE

\* threading.Lock: `with _lock` proceeds when no thread holds it.
LockFree(lock) == lock = 0

\* One step of thread t in the store: its new position and locals.
StoreStep(t, c) ==
    /\ client' = [client EXCEPT ![t] = c]
    /\ UNCHANGED <<pipeVars, dspVars, linkVars, batchVars>>

\* A thread calls one of the functions of the module.
store_call(t) ==
    /\ client[t].pc = "idle"
    /\ \E op \in StoreOps, job_id \in JobIds :
        \E data \in (IF op = "set_job" THEN StoreEntries
                     ELSE IF op = "update_job" THEN StoreUpdates ELSE {NoEntries}) :
            StoreStep(t, [NoClient EXCEPT !.pc = "lock", !.op = op,
                                          !.job_id = job_id, !.data = data])
    /\ UNCHANGED <<_jobs, _lock>>

\* `with _lock:` on entry; the thread notes the store it finds.
store_acquire(t) ==
    /\ client[t].pc = "lock"
    /\ LockFree(_lock)
    /\ _lock' = t
    /\ StoreStep(t, [client[t] EXCEPT !.pc = client[t].op, !.before = _jobs])
    /\ UNCHANGED _jobs

\* get_job: return _jobs.get(job_id).
store_get(t) ==
    /\ client[t].pc = "get_job"
    /\ StoreStep(t, [client[t] EXCEPT
                        !.pc = "unlock", !.after = _jobs,
                        !.result = IF client[t].job_id \in DOMAIN _jobs
                                   THEN <<_jobs[client[t].job_id]>> ELSE <<>>])
    /\ UNCHANGED <<_jobs, _lock>>

\* set_job: _jobs[job_id] = data.
store_set(t) ==
    /\ client[t].pc = "set_job"
    /\ _jobs' = dict_set(_jobs, client[t].job_id, client[t].data)
    /\ StoreStep(t, [client[t] EXCEPT !.pc = "unlock", !.after = _jobs'])
    /\ UNCHANGED _lock

\* update_job, line 28: if job_id in _jobs.
store_test(t) ==
    /\ client[t].pc = "update_job"
    /\ StoreStep(t, [client[t] EXCEPT
                        !.pc = IF client[t].job_id \in DOMAIN _jobs THEN "merge" ELSE "unlock",
                        !.after = _jobs])
    /\ UNCHANGED <<_jobs, _lock>>

\* update_job, line 29: _jobs[job_id].update(updates); a KeyError when the
\* entry is gone by now.
store_merge(t) ==
    /\ client[t].pc = "merge"
    /\ IF client[t].job_id \in DOMAIN _jobs
       THEN /\ _jobs' = dict_set(_jobs, client[t].job_id,
                                 dict_update(_jobs[client[t].job_id], client[t].data))
            /\ StoreStep(t, [client[t] EXCEPT !.pc = "unlock", !.after = _jobs'])
       ELSE /\ UNCHANGED _jobs
            /\ StoreStep(t, [client[t] EXCEPT !.pc = "unlock", !.after = _jobs,
                                              !.err = "KeyError"])
    /\ UNCHANGED _lock

\* delete_job: _jobs.pop(job_id, None).
store_delete(t) ==
    /\ client[t].pc = "delete_job"
    /\ _jobs' = dict_pop(_jobs, client[t].job_id)
    /\ StoreStep(t, [client[t] EXCEPT !.pc = "unlock", !.after = _jobs'])
    /\ UNCHANGED _lock

\* `with _lock:` on exit.
store_release(t) ==
    /\ client[t].pc = "unlock"
    /\ _lock' = 0
    /\ StoreStep(t, [client[t] EXCEPT !.pc = "done"])
    /\ UNCHANGED _jobs

NextStore ==
    \/ \E t \in Threads : store_call(t)
    \/ \E t \in Threads : store_acquire(t)
    \/ \E t \in Threads : store_get(t)
    \/ \E t \in Threads : store_set(t)
    \/ \E t \in Threads : store_test(t)
    \/ \E t \in Threads : store_merge(t)
    \/ \E t \in Threads : store_delete(t)
    \/ \E t \in Threads : store_release(t)

SpecStore == InitStore /\ [][NextStore]_vars

\* ---------------------------------------------------------- the share links

\* The tokens secrets.token_urlsafe draws, each drawn once; 0 is no token.
Tokens == 1..MaxTokens

\* Lifetimes asked for, in seconds: SHARE_LINK_TTL_SECONDS may be any integer.
LinkTtls == {-1, 0, 1}

InitLinks ==
    /\ PipeInit
    /\ call = NoCall
    /\ par = NoPar
    /\ StoreIdle
    /\ BatchIdle
    /\ LinksIdle

\* A link taken for expired at its deadline already.
Expired_at_deadline(t, expires_at) == t >= expires_at

\* time.time() > entry["expires_at"].
Expired(t, expires_at) == t > expires_at

\* MemoryLinkStore._cleanup_unlocked at time t.
_cleanup_unlocked(store, t) ==
    [k \in {tk \in DOMAIN store : ~Expired(t, store[tk].expires_at)} |-> store[k]]

\* The clock moves on.
link_tick ==
    /\ now < MaxTime
    /\ now' = now + 1
    /\ UNCHANGED <<_store, linkLog>>
    /\ UNCHANGED <<pipeVars, dspVars, _jobs, storeVars, batchVars>>

\* MemoryLinkStore.create: a new token, stored with its deadline, then the
\* cleanup, which reads the clock again.
link_create ==
    /\ \E job_id \in JobIds, ttl \in LinkTtls, later \in {now, now + 1} :
        LET unused == Tokens \ DOMAIN linkLog.issued
            token == CHOOSE tk \in unused : \A other \in unused : tk <= other
            entry == [job_id |-> job_id, expires_at |-> now + ttl]
        IN /\ unused # {}
           /\ later <= MaxTime
           /\ _store' = _cleanup_unlocked(dict_set(_store, token, entry), later)
           /\ linkLog' = [linkLog EXCEPT !.issued = dict_set(@, token, entry)]
           /\ now' = later
    /\ UNCHANGED <<pipeVars, dspVars, _jobs, storeVars, batchVars>>

\* MemoryLinkStore.resolve (and get_job_id, which calls it).
link_resolve ==
    /\ \E token \in Tokens :
        LET found == token \in DOMAIN _store
            late == found /\ Expired(now, _store[token].expires_at)
        IN /\ _store' = IF late THEN dict_pop(_store, token) ELSE _store
           /\ linkLog' = [linkLog EXCEPT
                             !.dead = IF late THEN @ \cup {token} ELSE @,
                             !.last = [token |-> token,
                                       result |-> IF found /\ ~late
                                                  THEN <<_store[token].job_id>> ELSE <<>>,
                                       at |-> now,
                                       issued |-> IF token \in DOMAIN linkLog.issued
                                                  THEN <<linkLog.issued[token]>> ELSE <<>>,
                                       dead |-> token \in linkLog.dead,
                                       revoked |-> token \in linkLog.revoked]]
    /\ UNCHANGED now
    /\ UNCHANGED <<pipeVars, dspVars, _jobs, storeVars, batchVars>>

\* MemoryLinkStore.revoke, of a token that was issued or of any other string.
link_revoke ==
    /\ \E token \in Tokens :
        /\ _store' = dict_pop(_store, token)
        /\ linkLog' = [linkLog EXCEPT
                          !.revoked = @ \cup ({token} \cap DOMAIN linkLog.issued)]
    /\ UNCHANGED now
    /\ UNCHANGED <<pipeVars, dspVars, _jobs, storeVars, batchVars>>

NextLinks ==
    \/ link_tick
    \/ link_create
    \/ link_resolve
    \/ link_revoke

SpecLinks == InitLinks /\ [][NextLinks]_vars

\* ------------------------------------------------------------------ batches

\* The keywords _run_batch_sequential passes to convert_to_8d.
BatchKwargs == {"input_path", "output_path", "pan_speed", "pan_depth", "room_size",
                "wet_level", "damping", "progress_callback", "effect_chain"}

\* The uploads of POST /batch-convert: what each file is, the format and the
\* effects[] of the form.
BatchUploads == SeqsUpTo({"ok", "bad_magic", "empty"}, MaxBatch)
BatchFormats == {"mp3", "exe"}
BatchEffects == {<<>>, <<"reverb">>, <<"bogus">>}
BatchIds == {"malformed", "unknown", "batch"}

\* The temp files of job i.
InputOf(i) == <<"tmp_in", i>>
OutputOf(i) == <<"tmp_out", i>>

\* job_store.update_job on the store: one call, made under the lock.
update_job_in(jobs, job_id, updates) ==
    IF job_id \in DOMAIN jobs
    THEN dict_set(jobs, job_id, dict_update(jobs[job_id], updates))
    ELSE jobs

\* A cleanup that leaves the file where it is.
_safe_delete_keep(fs, path) == fs

\* server._safe_delete.
_safe_delete(fs, path) == fs \ {path}

\* A loop that an exception of one job ends.
AfterJob_abort(k, raised, n) == IF raised THEN n + 1 ELSE k + 1

\* The for loop of _run_batch_sequential: its try/except is inside the body,
\* so the next job follows whatever the outcome of this one.
AfterJob(k, raised, n) == k + 1

BatchStatus == IF "batch" \in DOMAIN _batches THEN _batches["batch"].status ELSE "none"
BatchJobs == IF "batch" \in DOMAIN _batches THEN _batches["batch"].job_ids ELSE <<>>

InitBatch ==
    /\ PipeInit
    /\ call = NoCall
    /\ par = NoPar
    /\ StoreIdle
    /\ LinksIdle
    /\ BatchIdle

\* POST /batch-convert.
start_batch_conversion ==
    /\ worker.pc = "idle"
    /\ \E uploads \in BatchUploads, format \in BatchFormats, effects \in BatchEffects :
        LET built == BuildChain(effects)
            n == Len(SelectSeq(uploads, LAMBDA u : u = "ok"))
            status == IF uploads = <<>> THEN 400
                      ELSE IF format \notin ALLOWED_OUTPUT_FORMATS THEN 400
                      ELSE IF ~built.ok THEN 400
                      ELSE IF n = 0 THEN 400
                      ELSE 202
        IN IF status # 202
           THEN /\ worker' = [worker EXCEPT !.pc = "rejected", !.response = status]
                /\ UNCHANGED <<_jobs, _batches, tmp>>
           ELSE /\ _jobs' = [i \in 1..n |->
                               [status |-> "queued", progress |-> 0,
                                step |-> "Waiting to start", output_path |-> OutputOf(i),
                                input_path |-> InputOf(i), effect_chain |-> built.chain,
                                error |-> "none"]]
                /\ _batches' = [b \in {"batch"} |->
                                   [job_ids |-> [i \in 1..n |-> i], format |-> format,
                                    status |-> "processing"]]
                /\ tmp' = {InputOf(i) : i \in 1..n} \cup {OutputOf(i) : i \in 1..n}
                /\ worker' = [worker EXCEPT !.pc = "start", !.batch_id = "batch",
                                            !.response = 202]
    /\ UNCHANGED polled
    /\ UNCHANGED <<pipeVars, dspVars, storeVars, linkVars>>

\* _run_batch_sequential, lines 407-411.
run_batch_begin ==
    /\ worker.pc = "start"
    /\ IF worker.batch_id \in DOMAIN _batches
       THEN /\ _batches' = [_batches EXCEPT ![worker.batch_id].status = "processing"]
            /\ worker' = [worker EXCEPT !.pc = "loop", !.k = 1]
       ELSE /\ worker' = [worker EXCEPT !.pc = "done"]
            /\ UNCHANGED _batches
    /\ UNCHANGED <<_jobs, tmp, polled>>
    /\ UNCHANGED <<pipeVars, dspVars, storeVars, linkVars>>

\* Lines 413-433: the next job id, its entry, and the update to 'processing'.
run_batch_job_start ==
    /\ worker.pc = "loop"
    /\ worker.k <= Len(BatchJobs)
    /\ LET job_id == BatchJobs[worker.k]
       IN IF job_id \notin DOMAIN _jobs
          THEN /\ worker' = [worker EXCEPT !.k = worker.k + 1]
               /\ UNCHANGED _jobs
          ELSE /\ _jobs' = update_job_in(_jobs, job_id, [status |-> "processing"])
               /\ worker' = [worker EXCEPT !.pc = "call"]
    /\ UNCHANGED <<_batches, tmp, polled>>
    /\ UNCHANGED <<pipeVars, dspVars, storeVars, linkVars>>

\* Lines 434-444: the call convert_to_8d(**kw).  The keywords are bound first;
\* a body that runs returns or raises.
run_batch_job_call ==
    /\ worker.pc = "call"
    /\ \E raised \in (IF Binds(BatchKwargs) THEN BOOLEAN ELSE {TRUE}) :
        worker' = [worker EXCEPT
                      !.pc = "after", !.raised = raised,
                      !.error = IF ~Binds(BatchKwargs) THEN "TypeError"
                                ELSE IF raised THEN "ValueError" ELSE "none"]
    /\ UNCHANGED <<_jobs, _batches, tmp, polled>>
    /\ UNCHANGED <<pipeVars, dspVars, storeVars, linkVars>>

\* Lines 445-454: the job's final status, the cleanup of its files, and on to
\* the next job.
run_batch_job_finish ==
    /\ worker.pc = "after"
    /\ LET job_id == BatchJobs[worker.k]
           job_rec == _jobs[job_id]
       IN /\ _jobs' = update_job_in(_jobs, job_id,
                          IF worker.raised
                          THEN [status |-> "error", error |-> worker.error]
                          ELSE [status |-> "done", progress |-> 100])
          /\ tmp' = _safe_delete(IF worker.raised
                                 THEN _safe_delete(tmp, job_rec.output_path) ELSE tmp,
                                 job_rec.input_path)
    /\ worker' = [worker EXCEPT !.pc = "loop", !.raised = FALSE, !.error = "none",
                                !.k = AfterJob(worker.k, worker.raised, Len(BatchJobs))]
    /\ UNCHANGED <<_batches, polled>>
    /\ UNCHANGED <<pipeVars, dspVars, storeVars, linkVars>>

\* Line 456: batch["status"] = "done".
run_batch_end ==
    /\ worker.pc = "loop"
    /\ worker.k > Len(BatchJobs)
    /\ _batches' = [_batches EXCEPT ![worker.batch_id].status = "done"]
    /\ worker' = [worker EXCEPT !.pc = "done"]
    /\ UNCHANGED <<_jobs, tmp, polled>>
    /\ UNCHANGED <<pipeVars, dspVars, storeVars, linkVars>>

\* GET /batch-status/<batch_id>.
get_batch_status ==
    /\ \E batch_id \in BatchIds :
        LET found == batch_id \in DOMAIN _batches
            statuses == [i \in 1..Len(BatchJobs) |->
                            IF BatchJobs[i] \in DOMAIN _jobs
                            THEN _jobs[BatchJobs[i]].status ELSE "unknown"]
        IN polled' =
              IF batch_id = "malformed" THEN [NoPoll EXCEPT !.status = 400]
              ELSE IF ~found THEN [NoPoll EXCEPT !.status = 404]
              ELSE [status |-> 200, batch |-> _batches[batch_id].status,
                    jobs |-> statuses,
                    done |-> Cardinality({i \in 1..Len(statuses) : statuses[i] = "done"}),
                    failed |-> Cardinality({i \in 1..Len(statuses) : statuses[i] = "error"})]
    /\ UNCHANGED <<_jobs, _batches, worker, tmp>>
    /\ UNCHANGED <<pipeVars, dspVars, storeVars, linkVars>>

\* The steps of the batch's worker thread.
WorkerStep ==
    \/ run_batch_begin
    \/ run_batch_job_start
    \/ run_batch_job_call
    \/ run_batch_job_finish
    \/ run_batch_end

NextBatch ==
    \/ start_batch_conversion
    \/ run_batch_begin
    \/ run_batch_job_start
    \/ run_batch_job_call
    \/ run_batch_job_finish
    \/ run_batch_end
    \/ get_batch_status

SpecBatch == InitBatch /\ [][NextBatch]_vars

\* The worker is a thread of a running server: it is scheduled again and
\* again, and the call of convert_to_8d it waits for ends.
FairSpecBatch == SpecBatch /\ WF_vars(WorkerStep)

\* ------------------------------------------------- claims on the pipeline

Terminal == pc \in {"done", "failed"}

\* The names of the stages entered, in order.
Stages == [i \in 1..Len(trace) |-> trace[i].stage]

\* The effects among them.
EffectsApplied == SelectSeq(Stages, LAMBDA st : st \in EFFECT_REGISTRY)

\* The chain this run was asked for: the form's (or the default) for an
\* upload, the default for the command line, which names none.
RequestedChain ==
    IF req.caller = "server" THEN req.effect_chain ELSE DEFAULT_EFFECT_IDS

\* The exception came out of the body of convert_to_8d: its validation or one
\* of its stages (a TypeError is raised by the call itself).
FailedInside == error.type \notin {"none", "TypeError"}

\* Position of a stage in the trace, 0 when it was not entered.
IndexOf(stage) ==
    IF \E i \in 1..Len(trace) : trace[i].stage = stage
    THEN CHOOSE i \in 1..Len(trace) : trace[i].stage = stage
    ELSE 0

Count(stage) == Cardinality({i \in 1..Len(trace) : trace[i].stage = stage})

\* C1 (as claimed): a conversion in which no stage fails applies exactly the
\* requested effects, each once and in the requested order, and Rotation then
\* Reverb when no sequence was requested.
C1_Claim ==
    (Terminal /\ ~FailedInside) => EffectsApplied = RequestedChain

\* The parameters a run was given out of range: the form's fields for an
\* upload, the arguments for the command line.
Given(name) ==
    IF req.caller = "server"
    THEN (CASE name = "pan_speed" -> form.speed
            [] name = "pan_depth" -> form.depth
            [] name = "room_size" -> form.room
            [] name = "wet_level" -> form.wet
            [] name = "damping" -> form.damping
            [] name = "trim_start" -> form.trim_start
            [] name = "trim_end" -> form.trim_end)
    ELSE IF req.caller = "cli" /\ name \in {"pan_speed", "pan_depth", "room_size",
                                             "wet_level", "damping"}
    THEN <<req[name]>>
    ELSE <<>>

\* The ranges of the claim: pan_speed in [0.01, 2.0], the trim bounds >= 0,
\* the others in [0, 1].
InClaimedRange(name, v) ==
    CASE name = "pan_speed" -> InRange(v, 1, 200)
      [] name \in {"pan_depth", "room_size", "wet_level", "damping"} -> InRange(v, 0, 100)
      [] name \in {"trim_start", "trim_end"} -> v >= 0

OutOfRange ==
    { name \in {"pan_speed", "pan_depth", "room_size", "wet_level", "damping",
                "trim_start", "trim_end"} :
        /\ Len(Given(name)) = 1
        /\ ~InClaimedRange(name, Given(name)[1]) }

\* C2 (as claimed): a run given a parameter out of its range ends in an error
\* naming such a parameter, with nothing decoded, no effect applied and no
\* output written.
C2_Claim ==
    (Terminal /\ OutOfRange # {}) =>
        /\ pc = "failed"
        /\ error.about \in OutOfRange
        /\ trace = <<>>
        /\ "output" \notin files

HasUnknown(effect_ids) ==
    \E i \in 1..Len(effect_ids) : effect_ids[i] \notin EFFECT_REGISTRY

\* C3: a form naming an identifier outside the registry, at whatever position,
\* is answered with a rejection and leaves no job, no worker thread, no file
\* and no stage behind.
C3_UnknownEffectRejected ==
    HasUnknown(form.effects) =>
        /\ pc = "rejected"
        /\ response \in {400, 415}
        /\ job = NoJob
        /\ req = NoReq
        /\ files = {}
        /\ trace = <<>>

\* C3 witness: a rejected form whose unknown identifier comes second, after a
\* registered one.
C3_Witness ==
    /\ pc = "rejected"
    /\ response = 400
    /\ Len(form.effects) = 2
    /\ form.effects[1] \in EFFECT_REGISTRY
    /\ form.effects[2] \notin EFFECT_REGISTRY

\* C4: once a stage has failed the run is on its way out: no later stage is
\* entered, no stage is entered twice, the run ends failed and not done, and
\* the error is the one the caller gets (the job's error for an upload).
C4_FailFast ==
    /\ error # NoError <=> pc \in {"raised", "failed"}
    /\ (error # NoError /\ error.about \in {"load", "8d_rotate", "reverb", "normalize", "export"})
            => (Len(trace) >= 1 /\ trace[Len(trace)].stage = error.about)
    /\ \A i, j \in 1..Len(trace) : i < j => trace[i].stage # trace[j].stage
    /\ (pc = "failed" /\ req.caller = "server")
            => (job.status = "error" /\ job.error = error.type)
    /\ (pc = "failed" /\ req.caller = "cli") => response = 1
    /\ pc = "done" => (error = NoError /\ "output" \in files)

\* C4 witness: a run that loaded and panned, failed in the reverb, and ended
\* failed without normalising or exporting.
C4_Witness ==
    /\ pc = "failed"
    /\ error.about = "reverb"
    /\ Stages = <<"load", "8d_rotate", "reverb">>
    /\ "output" \notin files

\* C5: a run that succeeded normalised exactly once, after each of its effects
\* and before the export, and applied no effect after normalising.
C5_NormalizeLast ==
    pc \in {"returned", "done"} =>
        /\ Count("normalize") = 1
        /\ Count("export") = 1
        /\ IndexOf("normalize") < IndexOf("export")
        /\ \A i \in 1..Len(trace) :
              trace[i].stage \in EFFECT_REGISTRY => i < IndexOf("normalize")
        /\ Len(EffectsApplied) >= 1

\* C5 witness: a successful run on a buffer with frames in it.
C5_Witness ==
    /\ pc = "done"
    /\ Len(samples) >= 2
    /\ Stages = <<"load", "8d_rotate", "reverb", "normalize", "export">>

\* C6 (as claimed): a run that was given a progress observer and in which no
\* stage fails runs its stages and reports each of them once, with increasing
\* stage indices and the same total.
C6_Claim ==
    (Terminal /\ "progress_callback" \in req.kwargs /\ ~FailedInside) =>
        /\ pc = "done"
        /\ Len(observed) = Len(trace)
        /\ \A i \in 1..Len(observed) :
              /\ observed[i].total = observed[1].total
              /\ i > 1 => observed[i].step > observed[i - 1].step

\* C7 (as claimed): an upload whose trim bounds select a proper window, and in
\* which no stage fails, is trimmed before its first effect, and the effects
\* and the normaliser are given the frames of the window only.
C7_Claim ==
    (Terminal /\ req.trim_start > 0 /\ ~FailedInside) =>
        /\ Count("trim") = 1
        /\ \A i \in 1..Len(trace) :
              trace[i].stage \in EFFECT_REGISTRY \cup {"normalize"} =>
                  /\ IndexOf("trim") < i
                  /\ trace[i].frames < trace[IndexOf("trim")].frames

\* --------------------------------------------- claims on the DSP stages

ShapeStages == {"8d_rotate", "reverb", "stereo_width", "vinyl_warmth", "normalize"}

\* The call returned a buffer with the frames of its input, two channels each.
SameShape ==
    /\ call.result.err = "none"
    /\ Len(call.result.samples) = Len(call.input)
    /\ \A i \in 1..Len(call.result.samples) : Len(call.result.samples[i]) = 2

\* C8 (as claimed): every stage but the trimmer returns a buffer with the
\* frame count and the two channels of its input, whatever the input length.
C8_Claim == call.op \in ShapeStages => SameShape

\* The stages that take the peak of the buffer with np.max.
TakesPeak ==
    \/ call.op = "normalize"
    \/ call.op = "vinyl_warmth" /\ Get(call.params, "vinyl_warmth", 30) > 1

\* C8 (amended): every stage but the trimmer returns a buffer with the frame
\* count and the two channels of its input for every input with at least one
\* frame, shorter than the Stereo Width delay included; given a buffer with no
\* frame, the normaliser and Vinyl Warmth above 0.01 raise, and the other
\* stages return the buffer with no frame.
C8_ShapePreserved ==
    call.op \in ShapeStages =>
        IF Len(call.input) = 0 /\ TakesPeak
        THEN call.result.err # "none"
        ELSE SameShape

\* C8 witness: Stereo Width on a buffer shorter than its delay, the other
\* stages on a buffer as long.
C8_Witness ==
    /\ call.op = "stereo_width"
    /\ Len(call.input) >= 2
    /\ DelaySamples(call.sample_rate, Get(call.params, "stereo_width", 50)) > Len(call.input)
    /\ SameShape

\* The trimmer's frame indices as the claim computes them: seconds times
\* sample rate, truncated, the end clamped to the buffer, 0 meaning its end.
ClaimToEnd ==
    \/ call.params.end_ms <= 0
    \/ call.params.end_ms * call.sample_rate >= 1000 * Len(call.input)
ClaimStartFrame == Max(0, TruncDiv(call.params.start_ms * call.sample_rate, 1000))
ClaimEndFrame ==
    IF ClaimToEnd THEN Len(call.input)
    ELSE Min(Len(call.input), TruncDiv(call.params.end_ms * call.sample_rate, 1000))

\* C9: trim returns its input as it is when the range is the whole buffer or
\* when start_frame >= end_frame; it never raises, and never returns a buffer
\* without frames for an input that has frames.
C9_TrimNoOp ==
    call.op = "trim" =>
        /\ call.result.err = "none"
        /\ (call.params.start_ms <= 0 /\ ClaimToEnd) => call.result.samples = call.input
        /\ ClaimStartFrame >= ClaimEndFrame => call.result.samples = call.input
        /\ Len(call.input) > 0 => Len(call.result.samples) > 0

\* C9 witness: a range that starts after it ends, on a buffer with frames.
C9_Witness ==
    /\ call.op = "trim"
    /\ Len(call.input) >= 2
    /\ ~(call.params.start_ms <= 0 /\ ClaimToEnd)
    /\ ~ClaimToEnd
    /\ ClaimStartFrame > ClaimEndFrame
    /\ call.result = Returned(call.input)

\* C10: Stereo Width at a width of at most 0.01, or with a delay of no sample,
\* and Vinyl Warmth at a warmth of at most 0.01 return their input, sample for
\* sample.
C10_Identity ==
    /\ (/\ call.op = "stereo_width"
        /\ \/ Get(call.params, "stereo_width", 50) <= 1
           \/ TruncDiv(call.sample_rate * Get(call.params, "stereo_width", 50) * 20,
                       100 * 1000) <= 0)
            => call.result = Returned(call.input)
    /\ (call.op = "vinyl_warmth" /\ Get(call.params, "vinyl_warmth", 30) <= 1)
            => call.result = Returned(call.input)

\* C10 witness: Vinyl Warmth at exactly 0.01 on a buffer that is not silent.
C10_Witness ==
    /\ call.op = "vinyl_warmth"
    /\ "vinyl_warmth" \in DOMAIN call.params
    /\ call.params.vinyl_warmth = 1
    /\ Len(call.input) >= 2
    /\ \A i \in 1..Len(call.input) : call.input[i] # <<0, 0>>
    /\ call.result = Returned(call.input)

\* Largest absolute sample of a buffer, 0 for a buffer without frames.
ClaimPeak(buf) ==
    IF Len(buf) = 0 THEN 0
    ELSE LET vals == { Abs(buf[i][c]) : i \in 1..Len(buf), c \in 1..2 }
         IN CHOOSE m \in vals : \A v \in vals : v <= m

\* C11 (as claimed): whatever the input and the vinyl_warmth in [0, 1], the
\* buffer Vinyl Warmth returns has a peak of at most 0.99.
C11_Claim ==
    (/\ call.op = "vinyl_warmth"
     /\ InRange(Get(call.params, "vinyl_warmth", 30), 0, 100)
     /\ call.result.err = "none")
        => ClaimPeak(call.result.samples) <= 99

\* C12: the normaliser brings a buffer that is not silent, loud or quiet, of
\* either sign, to a peak of 0.99 by one factor 0.99 / peak for every sample
\* (each output sample times the peak is the input sample times 0.99, to the
\* rounding of one unit), and returns a silent buffer as it is.
C12_NormalizePeak ==
    (call.op = "normalize" /\ Len(call.input) > 0) =>
        LET peak == ClaimPeak(call.input)
            out == call.result.samples
        IN IF peak > 0
           THEN /\ call.result.err = "none"
                /\ Len(out) = Len(call.input)
                /\ ClaimPeak(out) = 99
                /\ \A i \in 1..Len(out), c \in 1..2 :
                      Abs(out[i][c] * peak - call.input[i][c] * 99) < peak
           ELSE call.result = Returned(call.input)

\* C12 witness: a quiet buffer whose samples are all negative, scaled up.
C12_Witness ==
    /\ call.op = "normalize"
    /\ Len(call.input) >= 2
    /\ \A i \in 1..Len(call.input), c \in 1..2 : call.input[i][c] < 0
    /\ ClaimPeak(call.input) < 99
    /\ ClaimPeak(call.result.samples) = 99

\* C13: normalising what the normaliser returned gives that buffer again.
C13_Idempotent ==
    call.op = "normalize_again" => call.result = call.first

\* C13 witness: a buffer the first call changed and the second did not.
C13_Witness ==
    /\ call.op = "normalize_again"
    /\ Len(call.input) >= 2
    /\ call.first.samples # call.input
    /\ call.result = call.first

Effects == {"8d_rotate", "reverb", "stereo_width", "vinyl_warmth"}

ZeroDepth ==
    /\ call.op = "8d_rotate"
    /\ Get(call.params, "pan_depth", 100) = 0
    /\ call.result.err = "none"

\* C15 (as claimed): with pan_depth = 0 the output of Rotation has its left
\* channel equal to its right channel at every frame, whatever the input.
C15_Claim ==
    ZeroDepth =>
        \A i \in 1..Len(call.result.samples) :
            call.result.samples[i][1] = call.result.samples[i][2]

\* C15 (amended): with pan_depth = 0 Rotation scales the two channels of a
\* frame by one gain, so the output's channels are equal at every frame where
\* the input's are equal, and opposite where the input's are opposite.
C15_CenterGain ==
    ZeroDepth =>
        \A i \in 1..Len(call.result.samples) :
            /\ call.input[i][1] = call.input[i][2]
                  => call.result.samples[i][1] = call.result.samples[i][2]
            /\ call.input[i][1] = -call.input[i][2]
                  => call.result.samples[i][1] = -call.result.samples[i][2]

\* C15 witness: a buffer with equal channels panned at depth 0 and some speed.
C15_Witness ==
    /\ ZeroDepth
    /\ Get(call.params, "pan_speed", 15) >= 50
    /\ Len(call.input) >= 2
    /\ \A i \in 1..Len(call.input) : call.input[i] = <<150, 150>>
    /\ \A i \in 1..Len(call.input) :
          /\ call.result.samples[i][1] = call.result.samples[i][2]
          /\ call.result.samples[i][1] > 0

\* Pan position of frame i (1-based) of the call at hand.
ClaimPosition(i) ==
    PanPosition(i - 1, Len(call.input), call.sample_rate,
                Get(call.params, "pan_speed", 15), Get(call.params, "pan_depth", 100))

\* C16: for pan_speed in [0.01, 2.0] and pan_depth in [0, 1] the pan position
\* of every frame is in [0, 1] and the squares of its two gains add up to 1
\* (to the resolution of the fixed-point sine, 5e-4).
C16_ConstantPower ==
    (/\ call.op = "8d_rotate"
     /\ InRange(Get(call.params, "pan_speed", 15), 1, 200)
     /\ InRange(Get(call.params, "pan_depth", 100), 0, 100))
        => \A i \in 1..Len(call.input) :
              LET pos == ClaimPosition(i)
                  l == LeftGain(pos)
                  r == RightGain(pos)
              IN /\ InRange(pos, 0, 10000)
                 /\ Abs(l * l + r * r - 10000 * 10000) <= 50000

\* C16 witness: a frame panned away from the centre at full depth.
C16_Witness ==
    /\ call.op = "8d_rotate"
    /\ Get(call.params, "pan_depth", 100) = 100
    /\ \E i \in 1..Len(call.input) :
          /\ ClaimPosition(i) > 7500
          /\ call.input[i] = <<150, 150>>
          /\ call.result.samples[i][1] < call.result.samples[i][2]

BothReturned == \A t \in Threads : par.thr[t].pc = "done"

TooLongError == Exc("ValueError", "load")

\* C18: an input the decoder reports longer than 600 s ends in the error of
\* the duration cap, with no stage entered after the load, no temporary file
\* created and no output written; an input of at most 600 s does not end in
\* that error.
C18_DurationGuard ==
    /\ decoded_ms > 600 * 1000 =>
          /\ pc \in {"raised", "failed"}
          /\ error = TooLongError
          /\ Stages = <<"load">>
          /\ created = {}
          /\ "output" \notin files
    /\ (decoded_ms >= 0 /\ decoded_ms <= 600 * 1000) => error # TooLongError

\* C18 witness: a run that ended on an input of 600.001 s.
C18_Witness ==
    /\ pc = "failed"
    /\ decoded_ms = 600 * 1000 + 1
    /\ error = TooLongError
    /\ response = 1

\* C19: when convert_to_8d has returned or raised, none of the temporary WAV
\* files it created exists.
C19_TempsRemoved ==
    pc \in {"returned", "raised", "done", "failed"} => created \cap files = {}

\* C19 witness: a run to a non-WAV target whose encoder failed, after both
\* temporary files had been created.
C19_Witness ==
    /\ pc = "raised"
    /\ error.type = "CouldntEncodeError"
    /\ created = {"decode_tmp", "export_tmp"}
    /\ created \cap files = {}

\* C20 (as claimed): a download of a job that is queued or processing is
\* answered 202; 404 is answered only for a job that is not found or has
\* failed; the file is served only for a job that is done.
C20_Claim ==
    download # NoDownload =>
        /\ download.job_status \in {"queued", "processing"} => download.status = 202
        /\ download.status = 404 => download.job_status \in {"none", "error"}
        /\ download.status = 200 => download.job_status = "done"

\* ------------------------------------------------ trimming and widening

\* C21: when the request is not the full range and start_frame < end_frame,
\* the trimmer returns the frames start_frame <= i < end_frame of its input in
\* their order: at least one frame, and never more than the input has.
C21_TrimWindow ==
    (/\ call.op = "trim"
     /\ ~(call.params.start_ms <= 0 /\ ClaimToEnd)
     /\ ClaimStartFrame < ClaimEndFrame) =>
        /\ call.result.err = "none"
        /\ call.result.samples =
              [i \in 1..(ClaimEndFrame - ClaimStartFrame) |->
                  call.input[ClaimStartFrame + i]]
        /\ Len(call.result.samples) = ClaimEndFrame - ClaimStartFrame
        /\ Len(call.result.samples) >= 1
        /\ Len(call.result.samples) <= Len(call.input)

\* C21 witness: a window that starts after the first frame and ends before
\* the last one.
C21_Witness ==
    /\ call.op = "trim"
    /\ ~ClaimToEnd
    /\ ClaimStartFrame >= 1
    /\ ClaimStartFrame < ClaimEndFrame
    /\ ClaimEndFrame < Len(call.input)
    /\ call.result.err = "none"
    /\ Len(call.result.samples) = ClaimEndFrame - ClaimStartFrame
    /\ call.result.samples # call.input

\* The delay of Stereo Width as the claims compute it:
\* trunc(sample_rate * stereo_width * 20 / 1000), the width in hundredths.
ClaimWidth == Get(call.params, "stereo_width", 50)
ClaimDelay == TruncDiv(call.sample_rate * ClaimWidth * 20, 100 * 1000)

\* C22: with stereo_width > 0.01 and a delay d > 0, Stereo Width returns
\* right[i] = right_original[i - d] for every i >= d, right[i] =
\* right_original[i] for every i < d, and the left channel as it was.
C22_RightDelayed ==
    (call.op = "stereo_width" /\ ClaimWidth > 1 /\ ClaimDelay > 0) =>
        /\ call.result.err = "none"
        /\ Len(call.result.samples) = Len(call.input)
        /\ \A i \in 0..(Len(call.input) - 1) :
              /\ call.result.samples[i + 1][1] = call.input[i + 1][1]
              /\ i >= ClaimDelay
                    => call.result.samples[i + 1][2] = call.input[i + 1 - ClaimDelay][2]
              /\ i < ClaimDelay
                    => call.result.samples[i + 1][2] = call.input[i + 1][2]

\* C22 witness: a buffer longer than the delay whose right channel moved.
C22_Witness ==
    /\ call.op = "stereo_width"
    /\ ClaimWidth > 1
    /\ ClaimDelay > 0
    /\ Len(call.input) > ClaimDelay
    /\ call.result.err = "none"
    /\ Right(call.result.samples) # Right(call.input)

\* C30: on a buffer with no more frames than the delay (N <= d, d > 0) Stereo
\* Width raises nothing and returns a buffer equal to its input.
C30_ShortBufferUnchanged ==
    (/\ call.op = "stereo_width"
     /\ ClaimWidth > 1
     /\ ClaimDelay > 0
     /\ Len(call.input) <= ClaimDelay) =>
        call.result = Returned(call.input)

\* C30 witness: a buffer with sound on the right, no longer than the delay.
C30_Witness ==
    /\ call.op = "stereo_width"
    /\ ClaimDelay > 0
    /\ Len(call.input) >= 1
    /\ Len(call.input) <= ClaimDelay
    /\ \E i \in 1..Len(call.input) : call.input[i][2] # 0
    /\ call.result = Returned(call.input)

\* The oscillator phase 2*pi*pan_speed*t of frame i (0-based) at the claimed
\* time t = i / sample_rate, in 1e-4 rad.
ClaimPhase(i) ==
    (((62832 * Get(call.params, "pan_speed", 15)) \div 100) * i) \div call.sample_rate

\* C23 (as claimed): in Rotation the oscillator time of frame i is
\* i / sample_rate for every frame of a buffer of any length, so the phase of
\* frame i is 2*pi*pan_speed*i / sample_rate (to the model's last digit).
C23_Claim ==
    call.op = "8d_rotate" =>
        \A i \in 0..(Len(call.input) - 1) :
            Abs(PanPhase(i, Len(call.input), call.sample_rate,
                         Get(call.params, "pan_speed", 15)) - ClaimPhase(i)) <= 1

\* ------------------------------------------------------- the life of a job

\* The moves of a job's status that the claim allows, its creation included.
ClaimedMoves ==
    {<<"none", "queued">>, <<"queued", "processing">>,
     <<"processing", "done">>, <<"processing", "error">>}

C28_Claim ==
    (req.caller = "server" /\ job.status = "error") =>
        /\ FailedInside
        /\ trace # <<>>

\* --------------------------------------------------------- the job store

\* The positions of a call at which it reads or writes _jobs.
InStore == {"get_job", "set_job", "update_job", "merge", "delete_job", "unlock"}

\* C24: every write of the store is made by the thread holding the lock, so an
\* update_job merges into the entry it found, whole: of two update_job calls
\* on one job no key written by either is lost, and an update_job of a job id
\* that is not in the store changes nothing (and raises nothing).
C24_LockedWrites ==
    /\ \A t \in Threads : client[t].pc \in InStore => _lock = t
    /\ \A t \in Threads :
          (client[t].op = "update_job" /\ client[t].pc \in {"unlock", "done"}) =>
              /\ client[t].err = "none"
              /\ client[t].job_id \notin DOMAIN client[t].before
                    => client[t].after = client[t].before
              /\ client[t].job_id \in DOMAIN client[t].before
                    => client[t].after =
                          dict_set(client[t].before, client[t].job_id,
                                   dict_update(client[t].before[client[t].job_id],
                                               client[t].data))
    /\ (/\ \A t \in Threads : client[t].op = "update_job" /\ client[t].pc = "done"
        /\ client[1].job_id = client[2].job_id
        /\ client[1].job_id \in DOMAIN _jobs) =>
            LET entry == _jobs[client[1].job_id]
            IN \A t \in Threads : \A k \in DOMAIN client[t].data :
                  /\ k \in DOMAIN entry
                  /\ \E u \in Threads : k \in DOMAIN client[u].data
                                        /\ entry[k] = client[u].data[k]

\* C24 witness: two update_job calls on one job, made at the same time with
\* different keys, both returned and both sets of keys in the entry.
C24_Witness ==
    /\ \A t \in Threads : client[t].op = "update_job" /\ client[t].pc = "done"
    /\ client[1].job_id = client[2].job_id
    /\ client[1].job_id \in DOMAIN _jobs
    /\ DOMAIN client[1].data \cap DOMAIN client[2].data = {}
    /\ \A t \in Threads : \A k \in DOMAIN client[t].data :
          _jobs[client[1].job_id][k] = client[t].data[k]

\* -------------------------------------------------------- the share links

\* C25: resolve(token) returns the job id stored for the token when the token
\* was created, has not been revoked and the time is not past its expires_at,
\* and None otherwise; a token resolve has once found expired resolves to
\* None ever after, whatever was created, resolved or revoked since.
C25_ResolveSound ==
    LET last == linkLog.last
        live == /\ last.issued # <<>>
                /\ ~last.revoked
                /\ last.at <= last.issued[1].expires_at
    IN /\ last.token # 0 =>
            /\ live => last.result = <<last.issued[1].job_id>>
            /\ ~live => last.result = <<>>
            /\ last.dead => last.result = <<>>
       /\ \A token \in linkLog.dead : token \notin DOMAIN _store

\* C25 witness: a token found expired earlier is resolved again, to None,
\* while another token created since is in the store.
C25_Witness ==
    /\ linkLog.last.token # 0
    /\ linkLog.last.dead
    /\ ~linkLog.last.revoked
    /\ linkLog.last.result = <<>>
    /\ \E other \in DOMAIN _store : other > linkLog.last.token

\* ---------------------------------------------------------------- batches

\* The status of the k-th job of the batch.
BatchJobStatus(k) == _jobs[BatchJobs[k]].status

\* C26: the jobs of a batch are converted one at a time, in the order of
\* job_ids: no two are 'processing' together, job k is started only when job
\* k-1 is 'done' or 'error', and a job that fails does not keep the jobs
\* after it from being run.
C26_OneAtATime ==
    /\ Cardinality({k \in 1..Len(BatchJobs) : BatchJobStatus(k) = "processing"}) <= 1
    /\ \A k \in 2..Len(BatchJobs) :
          BatchJobStatus(k) # "queued" => BatchJobStatus(k - 1) \in {"done", "error"}
    /\ worker.pc = "done" =>
          \A k \in 1..Len(BatchJobs) : BatchJobStatus(k) \in {"done", "error"}

\* C26 witness: the first job has failed and the second is being converted,
\* a third still waiting.
C26_Witness ==
    /\ Len(BatchJobs) >= 3
    /\ BatchJobStatus(1) = "error"
    /\ BatchJobStatus(2) = "processing"
    /\ BatchJobStatus(3) = "queued"

====
